---------------------------- MODULE Spec2Model ----------------------------
(***************************************************************************)
(* A model of rojo's RojoTree (src/snapshot/tree.rs) and of the sourcemap  *)
(* projection (src/sourcemap.rs).                                          *)
(*                                                                         *)
(* The tree is the WeakDom `inner`, the side map `metadata_map` and the    *)
(* two reverse indices `path_to_ids` and `specified_id_to_refs`.  The      *)
(* methods of RojoTree are operators over a record of these four fields    *)
(* (plus what the method logged and whether it panicked); the actions      *)
(* apply them to the variables.  `call` is the position of a remove or an  *)
(* update_metadata that is followed statement by statement.                *)
(***************************************************************************)
EXTENDS Integers, Sequences, FiniteSets, TLC

VARIABLES inner, metadata_map, path_to_ids, specified_id_to_refs,
          panicked, hist, iter, sourcemap, call

vars == <<inner, metadata_map, path_to_ids, specified_id_to_refs,
          panicked, hist, iter, sourcemap, call>>

-----------------------------------------------------------------------------
(* Bounds *)

\* Number of referents the WeakDom hands out in one run (the root included).
MaxRefs == 3

\* Largest number of nodes of a snapshot given to RojoTree::new / insert_instance.
MaxSnapshotNodes == 2

\* Largest number of nodes of a tree that is traversed or projected.
MaxTraversalNodes == 4

-----------------------------------------------------------------------------
(* Values *)

\* Ref::none(), the parent of the root.
NoneRef == 0

\* Option<T>
None == <<>>

Some(x) == <<x>>

IsSome(o) == o # None

Unwrap(o) == o[1]

Range(s) == {s[i] : i \in DOMAIN s}

\* Paths are sequences of components, so that strip_prefix is a computation.
ProjectDir == <<"proj">>

p1 == <<"proj", "a.lua">>

p2 == <<"proj", "b.lua">>

p3 == <<"lib", "c.lua">>

Paths == {p1, p2}

RojoRefs == {"X", "Y"}

\* InstanceMetadata { relevant_paths, specified_id }
InstanceMetadata(paths, id) == [relevant_paths |-> paths, specified_id |-> id]

Options(S) == {None} \cup {Some(x) : x \in S}

\* Metadata of at most one relevant path, with or without a specified id.
Metadatas == {InstanceMetadata(ps, id) :
                ps \in {{}} \cup {{p} : p \in Paths}, id \in Options(RojoRefs)}

\* Metadata of any set of relevant paths, without a specified id.
UpdateMetadatas == {InstanceMetadata(ps, None) : ps \in SUBSET Paths}

EmptyMetadata == InstanceMetadata({}, None)

EmptyProperties == [k \in {} |-> FALSE]

\* The classes the compatibility shim of insert_instance names.
ModelClasses == {"Model", "Actor", "Tool", "HopperBin", "Flag", "WorldModel",
                 "Workspace", "Status"}

-----------------------------------------------------------------------------
(* MultiMap<K, V>: key -> insertion-ordered set of values.  A key with no   *)
(* value has no entry.                                                      *)

MultiMapNew == [k \in {} |-> <<>>]

MultiMapGet(m, k) == IF k \in DOMAIN m THEN m[k] ELSE <<>>

MultiMapInsert(m, k, v) ==
    LET bucket == MultiMapGet(m, k)
    IN  IF v \in Range(bucket)
        THEN m
        ELSE [x \in DOMAIN m \cup {k} |-> IF x = k THEN Append(bucket, v) ELSE m[x]]

MultiMapRemove(m, k, v) ==
    LET bucket == SelectSeq(MultiMapGet(m, k), LAMBDA x : x # v)
    IN  IF k \notin DOMAIN m
        THEN m
        ELSE IF bucket = <<>>
             THEN [x \in DOMAIN m \ {k} |-> m[x]]
             ELSE [m EXCEPT ![k] = bucket]

-----------------------------------------------------------------------------
(* rbx_dom_weak: InstanceBuilder and WeakDom, as RojoTree uses them.        *)

InstanceBuilder(class, name, properties) ==
    [class |-> class, name |-> name, properties |-> properties]

\* InstanceBuilder::with_properties extends the property map; a later value
\* for a key replaces an earlier one.
with_properties(properties, more) == more @@ properties

Instance(builder, parent) ==
    [class |-> builder.class, name |-> builder.name,
     properties |-> builder.properties, children |-> <<>>, parent |-> parent]

\* WeakDom::new: a dom holding the root alone.
WeakDomNew(builder) ==
    [root_ref |-> 1, allocated |-> 1, instances |-> (1 :> Instance(builder, NoneRef))]

\* WeakDom::get_by_ref
get_by_ref(dom, id) ==
    IF id \in DOMAIN dom.instances THEN Some(dom.instances[id]) ELSE None

\* WeakDom::insert: a fresh referent, appended to the parent's children.
WeakDomInsert(dom, parent_ref, builder) ==
    LET referent == dom.allocated + 1
    IN  [dom EXCEPT
           !.allocated = referent,
           !.instances =
               [r \in DOMAIN dom.instances \cup {referent} |->
                   IF r = referent THEN Instance(builder, parent_ref)
                   ELSE IF r = parent_ref
                        THEN [dom.instances[r] EXCEPT
                                !.children = Append(dom.instances[r].children, referent)]
                        ELSE dom.instances[r]]]

RECURSIVE SubtreeRefs(_, _)
\* The referents of the subtree rooted at id (id included).
SubtreeRefs(dom, id) ==
    IF id \notin DOMAIN dom.instances
    THEN {}
    ELSE {id} \cup UNION {SubtreeRefs(dom, c) : c \in Range(dom.instances[id].children)}

\* WeakDom::destroy: unlinks id from its parent and drops the whole subtree.
WeakDomDestroy(dom, id) ==
    LET gone == SubtreeRefs(dom, id)
        parent == dom.instances[id].parent
    IN  [dom EXCEPT
           !.instances =
               [r \in DOMAIN dom.instances \ gone |->
                   IF r = parent
                   THEN [dom.instances[r] EXCEPT
                           !.children = SelectSeq(dom.instances[r].children,
                                                  LAMBDA c : c # id)]
                   ELSE dom.instances[r]]]

-----------------------------------------------------------------------------
(* RojoTree.  A tree value t is the record of the struct's four fields,     *)
(* with t.logged counting the log::error! records of the running method     *)
(* and t.panicked set once an unwrap/expect of the method has failed.       *)

RojoTree(dom, meta, paths, ids, logged, failed) ==
    [inner |-> dom, metadata_map |-> meta, path_to_ids |-> paths,
     specified_id_to_refs |-> ids, logged |-> logged, panicked |-> failed]

RECURSIVE InsertPaths(_, _, _)
\* for path in paths { path_to_ids.insert(path.clone(), id) }
InsertPaths(m, paths, id) ==
    IF paths = {}
    THEN m
    ELSE LET path == CHOOSE p \in paths : TRUE
         IN  InsertPaths(MultiMapInsert(m, path, id), paths \ {path}, id)

RECURSIVE RemovePaths(_, _, _)
\* for path in paths { path_to_ids.remove(path, id) }
RemovePaths(m, paths, id) ==
    IF paths = {}
    THEN m
    ELSE LET path == CHOOSE p \in paths : TRUE
         IN  RemovePaths(MultiMapRemove(m, path, id), paths \ {path}, id)

\* RojoTree::get_metadata
get_metadata(t, id) ==
    IF id \in DOMAIN t.metadata_map THEN Some(t.metadata_map[id]) ELSE None

\* RojoTree::get_ids_at_path
get_ids_at_path(t, path) == MultiMapGet(t.path_to_ids, path)

\* RojoTree::get_specified_id: Some exactly for a one-element entry.
get_specified_id(t, specified) ==
    LET refs == MultiMapGet(t.specified_id_to_refs, specified)
    IN  IF Len(refs) = 1 THEN Some(refs[1]) ELSE None

\* RojoTree::get_instance (get_instance_mut has the same shape): the value
\* returned, or panicked where the unwrap of the metadata lookup fails.
get_instance(t, id) ==
    LET instance == get_by_ref(t.inner, id)
    IN  IF IsSome(instance)
        THEN IF id \in DOMAIN t.metadata_map
             THEN [panicked |-> FALSE,
                   value |-> Some([instance |-> Unwrap(instance),
                                   metadata |-> t.metadata_map[id]])]
             ELSE [panicked |-> TRUE, value |-> None]
        ELSE [panicked |-> FALSE, value |-> None]

\* set_specified_id without the removal of the mapping of the old id.
set_specified_id_KeepsOld(t, id, specified) ==
    [t EXCEPT !.metadata_map =
                  IF id \in DOMAIN t.metadata_map
                  THEN [t.metadata_map EXCEPT ![id].specified_id = Some(specified)]
                  ELSE t.metadata_map,
              !.specified_id_to_refs =
                  MultiMapInsert(t.specified_id_to_refs, specified, id)]

\* RojoTree::set_specified_id
set_specified_id(t, id, specified) ==
    LET old == IF id \in DOMAIN t.metadata_map
               THEN t.metadata_map[id].specified_id ELSE None
        meta == IF id \in DOMAIN t.metadata_map
                THEN [t.metadata_map EXCEPT ![id].specified_id = Some(specified)]
                ELSE t.metadata_map
        pruned == IF IsSome(old)
                  THEN MultiMapRemove(t.specified_id_to_refs, Unwrap(old), id)
                  ELSE t.specified_id_to_refs
    IN  [t EXCEPT !.metadata_map = meta,
                  !.specified_id_to_refs = MultiMapInsert(pruned, specified, id)]

\* insert_metadata without the loop that adds id under its relevant paths.
insert_metadata_SkipsPaths(t, id, metadata) ==
    LET t2 == IF IsSome(metadata.specified_id)
              THEN set_specified_id(t, id, Unwrap(metadata.specified_id))
              ELSE t
    IN  [t2 EXCEPT !.metadata_map =
                       [r \in DOMAIN t2.metadata_map \cup {id} |->
                           IF r = id THEN metadata ELSE t2.metadata_map[r]]]

\* RojoTree::insert_metadata
insert_metadata(t, id, metadata) ==
    LET t1 == [t EXCEPT !.path_to_ids =
                            InsertPaths(t.path_to_ids, metadata.relevant_paths, id)]
        t2 == IF IsSome(metadata.specified_id)
              THEN LET specified_id == Unwrap(metadata.specified_id)
                       dup == MultiMapGet(t1.specified_id_to_refs, specified_id) # <<>>
                   IN  set_specified_id(
                           [t1 EXCEPT !.logged = IF dup THEN @ + 1 ELSE @],
                           id, specified_id)
              ELSE t1
    IN  [t2 EXCEPT !.metadata_map =
                       [r \in DOMAIN t2.metadata_map \cup {id} |->
                           IF r = id THEN metadata ELSE t2.metadata_map[r]]]

\* remove_metadata with the pruning of specified_id_to_refs left out.
remove_metadata_KeepsSpecifiedId(t, id) ==
    IF id \notin DOMAIN t.metadata_map
    THEN [t EXCEPT !.panicked = TRUE]
    ELSE LET metadata == t.metadata_map[id]
         IN  [t EXCEPT
                !.metadata_map = [r \in DOMAIN t.metadata_map \ {id} |-> t.metadata_map[r]],
                !.path_to_ids = RemovePaths(t.path_to_ids, metadata.relevant_paths, id)]

\* remove_metadata with the pruning of path_to_ids left out.
remove_metadata_KeepsPaths(t, id) ==
    IF id \notin DOMAIN t.metadata_map
    THEN [t EXCEPT !.panicked = TRUE]
    ELSE LET metadata == t.metadata_map[id]
         IN  [t EXCEPT
                !.metadata_map = [r \in DOMAIN t.metadata_map \ {id} |-> t.metadata_map[r]],
                !.specified_id_to_refs =
                    IF IsSome(metadata.specified_id)
                    THEN MultiMapRemove(t.specified_id_to_refs,
                                        Unwrap(metadata.specified_id), id)
                    ELSE t.specified_id_to_refs]

\* remove_metadata dropping the whole entry of each relevant path, not only id.
remove_metadata_DropsBucket(t, id) ==
    IF id \notin DOMAIN t.metadata_map
    THEN [t EXCEPT !.panicked = TRUE]
    ELSE LET metadata == t.metadata_map[id]
         IN  [t EXCEPT
                !.metadata_map = [r \in DOMAIN t.metadata_map \ {id} |-> t.metadata_map[r]],
                !.specified_id_to_refs =
                    IF IsSome(metadata.specified_id)
                    THEN MultiMapRemove(t.specified_id_to_refs,
                                        Unwrap(metadata.specified_id), id)
                    ELSE t.specified_id_to_refs,
                !.path_to_ids = [k \in DOMAIN t.path_to_ids \ metadata.relevant_paths |->
                                    t.path_to_ids[k]]]

\* RojoTree::remove_metadata: the unwrap panics when id has no metadata.
remove_metadata(t, id) ==
    IF id \notin DOMAIN t.metadata_map
    THEN [t EXCEPT !.panicked = TRUE]
    ELSE LET metadata == t.metadata_map[id]
             ids == IF IsSome(metadata.specified_id)
                    THEN MultiMapRemove(t.specified_id_to_refs,
                                        Unwrap(metadata.specified_id), id)
                    ELSE t.specified_id_to_refs
         IN  [t EXCEPT
                !.metadata_map = [r \in DOMAIN t.metadata_map \ {id} |-> t.metadata_map[r]],
                !.specified_id_to_refs = ids,
                !.path_to_ids = RemovePaths(t.path_to_ids, metadata.relevant_paths, id)]

\* The hack matching the class Model alone, not the classes that inherit
\* from it.
hack_needs_pivot_migration_ModelOnly(snapshot) ==
    IF /\ snapshot.class_name = "Model"
       /\ "NeedsPivotMigration" \notin DOMAIN snapshot.properties
    THEN "NeedsPivotMigration" :> FALSE
    ELSE EmptyProperties

\* The NeedsPivotMigration hack of insert_instance: the properties it adds.
hack_needs_pivot_migration(snapshot) ==
    IF /\ snapshot.class_name \in ModelClasses
       /\ "NeedsPivotMigration" \notin DOMAIN snapshot.properties
    THEN "NeedsPivotMigration" :> FALSE
    ELSE EmptyProperties

RECURSIVE insert_instance(_, _, _)
RECURSIVE insert_children(_, _, _)
\* RojoTree::insert_instance: the tree afterwards and the referent returned.
insert_instance(t, parent_ref, snapshot) ==
    LET builder == InstanceBuilder(
                       snapshot.class_name, snapshot.name,
                       with_properties(
                           with_properties(EmptyProperties,
                                           hack_needs_pivot_migration(snapshot)),
                           snapshot.properties))
        dom == WeakDomInsert(t.inner, parent_ref, builder)
        referent == dom.allocated
        t1 == insert_metadata([t EXCEPT !.inner = dom], referent, snapshot.metadata)
    IN  [tree |-> insert_children(t1, referent, snapshot.children),
         referent |-> referent]

\* for child in snapshot.children { self.insert_instance(referent, child); }
insert_children(t, referent, children) ==
    IF children = <<>>
    THEN t
    ELSE insert_children(insert_instance(t, referent, Head(children)).tree,
                         referent, Tail(children))

\* RojoTree::new
new(snapshot) ==
    LET root_builder == InstanceBuilder(
                            snapshot.class_name, snapshot.name,
                            with_properties(EmptyProperties, snapshot.properties))
        tree == RojoTree(WeakDomNew(root_builder), [r \in {} |-> EmptyMetadata],
                         MultiMapNew, MultiMapNew, 0, FALSE)
        root_ref == tree.inner.root_ref
    IN  insert_children(insert_metadata(tree, root_ref, snapshot.metadata),
                        root_ref, snapshot.children)

\* The loop of remove visiting the handle removed and none of its descendants.
remove_loop_RootOnly(t, to_move) ==
    IF to_move = <<>> THEN t ELSE remove_metadata(t, Head(to_move))

RECURSIVE remove_loop(_, _)
\* The while loop of RojoTree::remove over the queue to_move.
remove_loop(t, to_move) ==
    IF to_move = <<>>
    THEN t
    ELSE LET id == Head(to_move)
             t1 == remove_metadata(t, id)
             instance == get_by_ref(t1.inner, id)
         IN  IF t1.panicked
             THEN t1
             ELSE remove_loop(t1, IF IsSome(instance)
                                  THEN Tail(to_move) \o Unwrap(instance).children
                                  ELSE Tail(to_move))

\* One pass of the loop of remove that also destroys the instance it visits.
remove_visit_DestroysVisited(t, to_move) ==
    LET id == Head(to_move)
        t1 == remove_metadata(t, id)
    IN  [tree |-> IF t1.panicked \/ id \notin DOMAIN t1.inner.instances
                  THEN t1
                  ELSE [t1 EXCEPT !.inner = WeakDomDestroy(t1.inner, id)],
         to_move |-> Tail(to_move)]

\* One pass of the while loop of RojoTree::remove: the tree and the queue
\* after it.
remove_visit(t, to_move) ==
    LET id == Head(to_move)
        t1 == remove_metadata(t, id)
        instance == get_by_ref(t1.inner, id)
    IN  [tree |-> t1,
         to_move |-> IF ~t1.panicked /\ IsSome(instance)
                     THEN Tail(to_move) \o Unwrap(instance).children
                     ELSE Tail(to_move)]

\* self.inner.destroy(id), the last statement of remove.  WeakDom::destroy
\* panics when it is given the root or a referent that it does not hold.
destroy(t, id) ==
    IF id = t.inner.root_ref \/ id \notin DOMAIN t.inner.instances
    THEN [t EXCEPT !.panicked = TRUE]
    ELSE [t EXCEPT !.inner = WeakDomDestroy(t.inner, id)]

\* remove with the call of WeakDom::destroy left out.
remove_SkipsDestroy(t, id) == remove_loop(t, <<id>>)

\* remove returning at once when the handle has no node.
remove_ReturnsWhenNotLive(t, id) ==
    IF id \notin DOMAIN t.inner.instances
    THEN t
    ELSE LET t1 == remove_loop(t, <<id>>)
         IN  IF t1.panicked
             THEN t1
             ELSE [t1 EXCEPT !.inner = WeakDomDestroy(t1.inner, id)]

\* RojoTree::remove
remove(t, id) ==
    LET t1 == remove_loop(t, <<id>>)
    IN  IF t1.panicked THEN t1 ELSE destroy(t1, id)

\* The first if of update_metadata's Occupied arm: the path associations.
update_metadata_paths(t, id, metadata) ==
    LET existing_metadata == t.metadata_map[id]
    IN  IF existing_metadata.relevant_paths # metadata.relevant_paths
        THEN [t EXCEPT !.path_to_ids =
                           InsertPaths(
                               RemovePaths(t.path_to_ids,
                                           existing_metadata.relevant_paths, id),
                               metadata.relevant_paths, id)]
        ELSE t

\* The add of the new id taking id out of the entry of the old id as well.
update_metadata_add_id_RemovesOld(t, id, metadata) ==
    LET existing_metadata == t.metadata_map[id]
        changed == existing_metadata.specified_id # metadata.specified_id
        pruned == IF changed /\ IsSome(existing_metadata.specified_id)
                  THEN MultiMapRemove(t.specified_id_to_refs,
                                      Unwrap(existing_metadata.specified_id), id)
                  ELSE t.specified_id_to_refs
    IN  IF changed /\ IsSome(metadata.specified_id)
        THEN [t EXCEPT !.specified_id_to_refs =
                           MultiMapInsert(pruned, Unwrap(metadata.specified_id), id)]
        ELSE [t EXCEPT !.specified_id_to_refs = pruned]

\* The second if, first half: id goes under the new specified id, with a
\* log::error! when that id has a claimant already.
update_metadata_add_id(t, id, metadata) ==
    LET existing_metadata == t.metadata_map[id]
        changed == existing_metadata.specified_id # metadata.specified_id
    IN  IF changed /\ IsSome(metadata.specified_id)
        THEN LET new_id == Unwrap(metadata.specified_id)
                 dup == MultiMapGet(t.specified_id_to_refs, new_id) # <<>>
             IN  [t EXCEPT !.logged = IF dup THEN @ + 1 ELSE @,
                           !.specified_id_to_refs =
                               MultiMapInsert(t.specified_id_to_refs, new_id, id)]
        ELSE t

\* The second if, second half: id leaves the entry of the old specified id.
update_metadata_remove_id(t, id, metadata) ==
    LET existing_metadata == t.metadata_map[id]
        changed == existing_metadata.specified_id # metadata.specified_id
    IN  IF changed /\ IsSome(existing_metadata.specified_id)
        THEN [t EXCEPT !.specified_id_to_refs =
                           MultiMapRemove(t.specified_id_to_refs,
                                          Unwrap(existing_metadata.specified_id), id)]
        ELSE t

\* entry.insert(metadata)
update_metadata_store(t, id, metadata) ==
    [t EXCEPT !.metadata_map = [@ EXCEPT ![id] = metadata]]

\* update_metadata adding id under the new paths without removing it from
\* the old ones.
update_metadata_KeepsOldPaths(t, id, metadata) ==
    IF id \in DOMAIN t.metadata_map
    THEN LET existing_metadata == t.metadata_map[id]
             changed == existing_metadata.specified_id # metadata.specified_id
             added == IF changed /\ IsSome(metadata.specified_id)
                      THEN MultiMapInsert(t.specified_id_to_refs,
                                          Unwrap(metadata.specified_id), id)
                      ELSE t.specified_id_to_refs
         IN  [t EXCEPT !.path_to_ids = InsertPaths(t.path_to_ids,
                                                   metadata.relevant_paths, id),
                       !.specified_id_to_refs =
                           IF changed /\ IsSome(existing_metadata.specified_id)
                           THEN MultiMapRemove(added,
                                               Unwrap(existing_metadata.specified_id), id)
                           ELSE added,
                       !.metadata_map = [@ EXCEPT ![id] = metadata]]
    ELSE [t EXCEPT !.metadata_map =
                       [r \in DOMAIN t.metadata_map \cup {id} |->
                           IF r = id THEN metadata ELSE t.metadata_map[r]]]

\* update_metadata indexing the metadata it stores for a handle that had none.
update_metadata_VacantIndexes(t, id, metadata) ==
    IF id \in DOMAIN t.metadata_map
    THEN update_metadata_KeepsOldPaths(t, id, metadata)
    ELSE insert_metadata(t, id, metadata)

\* RojoTree::update_metadata
update_metadata(t, id, metadata) ==
    IF id \in DOMAIN t.metadata_map
    THEN LET existing_metadata == t.metadata_map[id]
             paths == IF existing_metadata.relevant_paths # metadata.relevant_paths
                      THEN InsertPaths(
                               RemovePaths(t.path_to_ids,
                                           existing_metadata.relevant_paths, id),
                               metadata.relevant_paths, id)
                      ELSE t.path_to_ids
             changed == existing_metadata.specified_id # metadata.specified_id
             dup == /\ changed
                    /\ IsSome(metadata.specified_id)
                    /\ MultiMapGet(t.specified_id_to_refs,
                                   Unwrap(metadata.specified_id)) # <<>>
             added == IF changed /\ IsSome(metadata.specified_id)
                      THEN MultiMapInsert(t.specified_id_to_refs,
                                          Unwrap(metadata.specified_id), id)
                      ELSE t.specified_id_to_refs
             ids == IF changed /\ IsSome(existing_metadata.specified_id)
                    THEN MultiMapRemove(added,
                                        Unwrap(existing_metadata.specified_id), id)
                    ELSE added
         IN  [t EXCEPT !.path_to_ids = paths,
                       !.specified_id_to_refs = ids,
                       !.logged = IF dup THEN @ + 1 ELSE @,
                       !.metadata_map = [@ EXCEPT ![id] = metadata]]
    ELSE [t EXCEPT !.metadata_map =
                       [r \in DOMAIN t.metadata_map \cup {id} |->
                           IF r = id THEN metadata ELSE t.metadata_map[r]]]

-----------------------------------------------------------------------------
(* InstanceSnapshot values given to new and insert_instance.                *)

InstanceSnapshot(name, class_name, properties, metadata, children) ==
    [name |-> name, class_name |-> class_name, properties |-> properties,
     metadata |-> metadata, children |-> children]

RECURSIVE SnapshotsOfSize(_, _)
RECURSIVE ForestsOfSize(_, _)
\* The snapshots of exactly n nodes whose nodes are drawn from `heads`
\* (snapshots without children).
SnapshotsOfSize(heads, n) ==
    IF n = 0
    THEN {}
    ELSE {[h EXCEPT !.children = f] : h \in heads, f \in ForestsOfSize(heads, n - 1)}

\* The sequences of snapshots of n nodes in all.
ForestsOfSize(heads, n) ==
    IF n = 0
    THEN {<<>>}
    ELSE UNION {{<<s>> \o f : s \in SnapshotsOfSize(heads, k),
                              f \in ForestsOfSize(heads, n - k)} : k \in 1..n}

SnapshotsUpTo(heads, n) == UNION {SnapshotsOfSize(heads, k) : k \in 1..n}

RECURSIVE SnapshotSize(_)
RECURSIVE ForestSize(_)
SnapshotSize(snapshot) == 1 + ForestSize(snapshot.children)

ForestSize(children) ==
    IF children = <<>> THEN 0 ELSE SnapshotSize(Head(children)) + ForestSize(Tail(children))

\* Snapshots that vary in metadata only.
TreeHeads ==
    {InstanceSnapshot("Instance", "Folder", EmptyProperties, m, <<>>) : m \in Metadatas}

TreeSnapshots == SnapshotsUpTo(TreeHeads, MaxSnapshotNodes)

-----------------------------------------------------------------------------
(* State *)

\* The tree the variables hold, at the start of a method.
Tree == RojoTree(inner, metadata_map, path_to_ids, specified_id_to_refs, 0, FALSE)

Store(t) ==
    /\ inner' = t.inner
    /\ metadata_map' = t.metadata_map
    /\ path_to_ids' = t.path_to_ids
    /\ specified_id_to_refs' = t.specified_id_to_refs
    /\ panicked' = t.panicked

Live == DOMAIN inner.instances

\* The last method called on the tree:
\*   op      its name
\*   id      its handle argument (the parent, for insert_instance)
\*   arg     the snapshot given to new / insert_instance
\*   ret     the handle insert_instance returned
\*   old     the metadata it removed or replaced
\*   pre     the two indices before the insert_instance (kept by the remove
\*           that follows it and takes out the handle it returned)
\*   undo    for remove: the call before it was the insert_instance that
\*           returned the handle removed
\*   logged  the number of log::error! records it wrote
Hist(op, id, arg, ret, old, pre, undo, logged) ==
    [op |-> op, id |-> id, arg |-> arg, ret |-> ret, old |-> old, pre |-> pre,
     undo |-> undo, logged |-> logged]

\* No RojoDescendants borrows the tree.
NoIter == [active |-> FALSE, id |-> NoneRef, queue |-> <<>>, yielded |-> <<>>,
           done |-> FALSE]

\* No method is part-way through its body.
\*   op        the method running
\*   id        its handle argument
\*   metadata  the metadata given to update_metadata
\*   to_move   the queue of remove
\*   pc        the statement it is to run next
\*   before    the tree as it was when the method was called
NoCall == [active |-> FALSE, op |-> "none", id |-> NoneRef, metadata |-> None,
           to_move |-> <<>>, pc |-> "none", before |-> None, logged |-> 0]

\* recurse_create_node has not been called.
NoSourcemap == [called |-> FALSE, referent |-> NoneRef, files |-> {}, result |-> None]

InitWith(snapshots) ==
    \E snapshot \in snapshots :
        LET t == new(snapshot)
        IN  /\ inner = t.inner
            /\ metadata_map = t.metadata_map
            /\ path_to_ids = t.path_to_ids
            /\ specified_id_to_refs = t.specified_id_to_refs
            /\ panicked = t.panicked
            /\ hist = Hist("new", NoneRef, Some(snapshot), t.inner.root_ref, None, None,
                           FALSE, t.logged)
            /\ iter = NoIter
            /\ sourcemap = NoSourcemap
            /\ call = NoCall

Init == InitWith(TreeSnapshots)

\* A method that takes &mut self runs only while no iterator borrows the tree.
CanMutate == ~panicked /\ ~iter.active /\ ~call.active

\* insert_instance of a snapshot of nodes drawn from `heads`, while the
\* WeakDom has referents left for all of its nodes.
InsertInstanceFrom(heads) ==
    /\ CanMutate
    /\ \E n \in 1..MaxSnapshotNodes :
          /\ inner.allocated + n <= MaxRefs
          /\ \E parent_ref \in Live, snapshot \in SnapshotsOfSize(heads, n) :
                LET r == insert_instance(Tree, parent_ref, snapshot)
                IN  /\ Store(r.tree)
                    /\ hist' = Hist("insert", parent_ref, Some(snapshot), r.referent,
                                    None,
                                    Some([path_to_ids |-> path_to_ids,
                                          specified_id_to_refs |-> specified_id_to_refs]),
                                    FALSE, r.tree.logged)
    /\ UNCHANGED <<iter, sourcemap, call>>

InsertInstance == InsertInstanceFrom(TreeHeads)

\* WeakDom::destroy refuses the root, so remove is called on other handles.
Remove ==
    /\ CanMutate
    /\ \E id \in Live \ {inner.root_ref} :
          LET t == remove(Tree, id)
              undo == hist.op = "insert" /\ hist.ret = id
          IN  /\ Store(t)
              /\ hist' = Hist("remove", id, None, NoneRef, get_metadata(Tree, id),
                              IF undo THEN hist.pre ELSE None, undo, t.logged)
    /\ UNCHANGED <<iter, sourcemap, call>>

\* keep_old: whether hist keeps the metadata the call replaced.
UpdateMetadataFrom(metadatas, keep_old) ==
    /\ CanMutate
    /\ \E id \in Live, metadata \in metadatas :
          LET t == update_metadata(Tree, id, metadata)
          IN  /\ Store(t)
              /\ hist' = Hist("update", id, None, NoneRef,
                              IF keep_old THEN get_metadata(Tree, id) ELSE None,
                              None, FALSE, t.logged)
    /\ UNCHANGED <<iter, sourcemap, call>>

UpdateMetadata == UpdateMetadataFrom(Metadatas, FALSE)

\* keep_old: whether hist keeps the id given and the metadata of the handle
\* before the call.
SetSpecifiedIdFrom(keep_old) ==
    /\ CanMutate
    /\ \E id \in Live, specified \in RojoRefs :
          LET t == set_specified_id(Tree, id, specified)
          IN  /\ Store(t)
              /\ hist' = Hist("set_id", id,
                              IF keep_old THEN Some(specified) ELSE None, NoneRef,
                              IF keep_old THEN get_metadata(Tree, id) ELSE None,
                              None, FALSE, t.logged)
    /\ UNCHANGED <<iter, sourcemap, call>>

SetSpecifiedId == SetSpecifiedIdFrom(FALSE)

Next == InsertInstance \/ Remove \/ UpdateMetadata \/ SetSpecifiedId

Spec == Init /\ [][Next]_vars

-----------------------------------------------------------------------------
(* Properties of the tree under Spec *)

\* The live handles whose metadata declares the specified id.
Declarers(specified) ==
    {h \in Live \cap DOMAIN metadata_map :
        metadata_map[h].specified_id = Some(specified)}

\* C1: get_specified_id(id) is Some(h) exactly when h is the only live handle
\* whose metadata declares id, and None when no live handle or two or more
\* live handles declare it.
C1_StableIdLookup ==
    \A specified \in RojoRefs :
        /\ \A h \in 0..(MaxRefs + 1) :
              get_specified_id(Tree, specified) = Some(h) <=> Declarers(specified) = {h}
        /\ Cardinality(Declarers(specified)) # 1 =>
              get_specified_id(Tree, specified) = None

\* C1 witness: a remove took out a handle that declared X while another live
\* handle declared X too, and the lookup of X now gives that other handle.
C1_Witness ==
    /\ hist.op = "remove"
    /\ hist.old = Some(InstanceMetadata({}, Some("X")))
    /\ hist.logged = 0
    /\ \E h \in Live \ {inner.root_ref} :
          /\ h > hist.id
          /\ Declarers("X") = {h}
          /\ get_specified_id(Tree, "X") = Some(h)

\* C1 witness of the ambiguous case: two live handles declare X, the insert
\* of the second one logged the duplicate, and the lookup of X is None.
C1_WitnessAmbiguous ==
    /\ hist.op = "insert"
    /\ hist.logged = 1
    /\ Cardinality(Declarers("X")) = 2
    /\ get_specified_id(Tree, "X") = None

\* C2: between operations, the keys of metadata_map are the live instances
\* of the WeakDom.
C2_MetadataCoexists == DOMAIN metadata_map = DOMAIN inner.instances

\* C2 witness: a remove took out a subtree of two instances, and only the
\* root is left with its metadata.
C2_Witness ==
    /\ hist.op = "remove"
    /\ inner.allocated = 3
    /\ Live = {inner.root_ref}
    /\ DOMAIN metadata_map = {inner.root_ref}
    /\ hist.undo

\* An index as a map from its keys to the sets of handles under them.
IndexSets(m) == [k \in DOMAIN m |-> Range(m[k])]

\* C3: insert_instance followed at once by remove of the handle it returned
\* leaves path_to_ids and specified_id_to_refs with the key-to-handle-set
\* contents they had before the insert.
C3_InsertRemoveSymmetry ==
    (hist.op = "remove" /\ hist.undo) =>
        /\ IndexSets(path_to_ids) = IndexSets(Unwrap(hist.pre).path_to_ids)
        /\ IndexSets(specified_id_to_refs) =
               IndexSets(Unwrap(hist.pre).specified_id_to_refs)

\* C3 witness: the subtree inserted and removed had two instances, its root
\* declared a path and an id that the root of the tree declares too, and the
\* entries of the root of the tree are still there.
C3_Witness ==
    /\ hist.op = "remove"
    /\ hist.undo
    /\ hist.id = 2
    /\ inner.allocated = 3
    /\ hist.old = Some(InstanceMetadata({p1}, Some("X")))
    /\ metadata_map[inner.root_ref] = InstanceMetadata({p1}, Some("X"))
    /\ MultiMapGet(path_to_ids, p1) = <<inner.root_ref>>
    /\ MultiMapGet(specified_id_to_refs, "X") = <<inner.root_ref>>

RECURSIVE Ancestors(_)
\* The proper ancestors of a live handle.
Ancestors(h) ==
    IF inner.instances[h].parent = NoneRef
    THEN {}
    ELSE {inner.instances[h].parent} \cup Ancestors(inner.instances[h].parent)

Independent(a, b) == a # b /\ a \notin Ancestors(b) /\ b \notin Ancestors(a)

Declares(h, path) == path \in metadata_map[h].relevant_paths

\* C4: two independent live handles that both declare path p are both in
\* get_ids_at_path(p); after remove of a handle that declared p, the handle
\* removed is not in get_ids_at_path(p) and every live handle that declares p
\* still is.
C4_PathAliasing ==
    \A path \in Paths :
        /\ \A a, b \in Live :
              (Independent(a, b) /\ Declares(a, path) /\ Declares(b, path)) =>
                  {a, b} \subseteq Range(get_ids_at_path(Tree, path))
        /\ (hist.op = "remove" /\ path \in Unwrap(hist.old).relevant_paths) =>
              /\ hist.id \notin Range(get_ids_at_path(Tree, path))
              /\ \A b \in Live : Declares(b, path) =>
                                    b \in Range(get_ids_at_path(Tree, path))

\* C4 witness: of two siblings that declared p1, the first was removed and
\* get_ids_at_path(p1) is the second alone.
C4_Witness ==
    /\ hist.op = "remove"
    /\ hist.id = 2
    /\ p1 \in Unwrap(hist.old).relevant_paths
    /\ 3 \in Live
    /\ inner.instances[3].parent = inner.root_ref
    /\ Declares(3, p1)
    /\ get_ids_at_path(Tree, p1) = <<3>>

\* C10: get_instance never panics, gives the instance paired with its
\* metadata for a live handle and None for any other handle.
C10_GetInstanceTotal ==
    \A id \in 0..(MaxRefs + 1) :
        LET got == get_instance(Tree, id)
        IN  /\ ~got.panicked
            /\ id \in Live =>
                  /\ IsSome(got.value)
                  /\ Unwrap(got.value).instance = inner.instances[id]
                  /\ id \in DOMAIN metadata_map
                  /\ Unwrap(got.value).metadata = metadata_map[id]
            /\ id \notin Live => got.value = None

\* C10 witness: after a remove, the handle removed looks up to None and the
\* root to its instance and metadata.
C10_Witness ==
    /\ hist.op = "remove"
    /\ get_instance(Tree, hist.id) = [panicked |-> FALSE, value |-> None]
    /\ IsSome(get_instance(Tree, inner.root_ref).value)

\* C13: between operations, a handle h is in get_ids_at_path(p) exactly when
\* h is live and p is one of the relevant_paths of h's metadata, no handle is
\* twice in an entry, and no entry is empty.
C13_PathIndexExact ==
    /\ \A path \in Paths \cup DOMAIN path_to_ids : \A h \in 0..(MaxRefs + 1) :
          h \in Range(get_ids_at_path(Tree, path)) <=>
              /\ h \in Live
              /\ h \in DOMAIN metadata_map
              /\ path \in metadata_map[h].relevant_paths
    /\ \A path \in DOMAIN path_to_ids :
          /\ Cardinality(Range(path_to_ids[path])) = Len(path_to_ids[path])
          /\ path_to_ids[path] # <<>>

\* C13 witness: handle 2 has been removed and an update_metadata has taken
\* handle 3 from p1 to p2; the root declares p1 and handle 3 declares p2, and
\* each of the two entries holds its one declarer.
C13_Witness ==
    /\ hist.op = "update"
    /\ hist.id = 3
    /\ hist.old = Some(InstanceMetadata({p1}, None))
    /\ Live = {1, 3}
    /\ metadata_map[1].relevant_paths = {p1}
    /\ metadata_map[3].relevant_paths = {p2}
    /\ get_ids_at_path(Tree, p1) = <<1>>
    /\ get_ids_at_path(Tree, p2) = <<3>>
    /\ DOMAIN path_to_ids = {p1, p2}

\* C19 as stated: get_ids_at_path(p) never holds both a handle and one of
\* the descendants of that handle.
C19_Original ==
    \A path \in DOMAIN path_to_ids :
        \A a, b \in Range(path_to_ids[path]) \cap Live : a \notin Ancestors(b)

-----------------------------------------------------------------------------
(* update_metadata, with hist keeping the metadata replaced *)

UpdateHeads ==
    {InstanceSnapshot("Instance", "Folder", EmptyProperties, m, <<>>) :
        m \in UpdateMetadatas}

UpdateSnapshots == SnapshotsUpTo(UpdateHeads, MaxSnapshotNodes)

InitUpdate == InitWith(UpdateSnapshots)

InsertInstanceUpdate == InsertInstanceFrom(UpdateHeads)

UpdateMetadataKeepOld == UpdateMetadataFrom(UpdateMetadatas, TRUE)

NextUpdate == InsertInstanceUpdate \/ Remove \/ UpdateMetadataKeepOld

SpecUpdate == InitUpdate /\ [][NextUpdate]_vars

\* C5: update_metadata of a live handle from relevant_paths {q1} to {q2},
\* q2 # q1, leaves the handle out of get_ids_at_path(q1) and in
\* get_ids_at_path(q2), and changes no other handle's membership under q1
\* and q2.
C5_UpdateReconciliation ==
    [][\A q1, q2 \in Paths :
          (/\ q1 # q2
           /\ hist'.op = "update"
           /\ metadata_map[hist'.id].relevant_paths = {q1}
           /\ metadata_map'[hist'.id].relevant_paths = {q2}) =>
              /\ hist'.id \notin Range(MultiMapGet(path_to_ids', q1))
              /\ hist'.id \in Range(MultiMapGet(path_to_ids', q2))
              /\ \A q \in {q1, q2} :
                    Range(MultiMapGet(path_to_ids', q)) \ {hist'.id} =
                        Range(MultiMapGet(path_to_ids, q)) \ {hist'.id}]_vars

\* C5 witness: handle 2 went from {p1} to {p2} while the root declares p1
\* and handle 3 declares p2; p1 now has the root alone and p2 has 3 and 2.
C5_Witness ==
    /\ hist.op = "update"
    /\ hist.id = 2
    /\ IsSome(hist.old)
    /\ Unwrap(hist.old).relevant_paths = {p1}
    /\ metadata_map[2].relevant_paths = {p2}
    /\ get_ids_at_path(Tree, p1) = <<inner.root_ref>>
    /\ get_ids_at_path(Tree, p2) = <<3, 2>>

-----------------------------------------------------------------------------
(* RojoDescendants *)

\* RojoTree::descendants: the iterator, its queue seeded with id.  `yielded`
\* is what the consumer has received so far and `done` that next has
\* returned None.
descendants(id) ==
    [active |-> TRUE, id |-> id, queue |-> <<id>>, yielded |-> <<>>, done |-> FALSE]

\* RojoDescendants::next without the extension of the queue by the children.
RojoDescendants_next_NoChildren(t, it) ==
    IF it.queue = <<>>
    THEN [iter |-> [it EXCEPT !.done = TRUE], item |-> None, panicked |-> FALSE]
    ELSE LET id == Head(it.queue)
         IN  [iter |-> [it EXCEPT !.queue = Tail(it.queue),
                                  !.yielded = Append(it.yielded, id)],
              item |-> get_instance(t, id).value, panicked |-> FALSE]

\* RojoDescendants::next putting the children at the front of the queue.
RojoDescendants_next_DepthFirst(t, it) ==
    IF it.queue = <<>>
    THEN [iter |-> [it EXCEPT !.done = TRUE], item |-> None, panicked |-> FALSE]
    ELSE LET id == Head(it.queue)
             instance == get_by_ref(t.inner, id)
             metadata == get_metadata(t, id)
         IN  IF instance = None \/ metadata = None
             THEN [iter |-> [it EXCEPT !.queue = Tail(it.queue)], item |-> None,
                   panicked |-> TRUE]
             ELSE [iter |-> [it EXCEPT
                               !.queue = Unwrap(instance).children \o Tail(it.queue),
                               !.yielded = Append(it.yielded, id)],
                   item |-> Some([instance |-> Unwrap(instance),
                                  metadata |-> Unwrap(metadata)]),
                   panicked |-> FALSE]

\* RojoDescendants::next: the iterator afterwards, the item returned, and
\* whether one of the two expects failed.
RojoDescendants_next(t, it) ==
    IF it.queue = <<>>
    THEN [iter |-> [it EXCEPT !.done = TRUE], item |-> None, panicked |-> FALSE]
    ELSE LET id == Head(it.queue)
             instance == get_by_ref(t.inner, id)
             metadata == get_metadata(t, id)
         IN  IF instance = None \/ metadata = None
             THEN [iter |-> [it EXCEPT !.queue = Tail(it.queue)], item |-> None,
                   panicked |-> TRUE]
             ELSE [iter |-> [it EXCEPT
                               !.queue = Tail(it.queue) \o Unwrap(instance).children,
                               !.yielded = Append(it.yielded, id)],
                   item |-> Some([instance |-> Unwrap(instance),
                                  metadata |-> Unwrap(metadata)]),
                   panicked |-> FALSE]

Descendants ==
    /\ ~panicked
    /\ ~iter.active
    /\ \E id \in Live : iter' = descendants(id)
    /\ UNCHANGED <<inner, metadata_map, path_to_ids, specified_id_to_refs, panicked,
                   hist, sourcemap, call>>

DescendantsNext ==
    /\ ~panicked
    /\ iter.active
    /\ LET r == RojoDescendants_next(Tree, iter)
       IN  /\ iter' = r.iter
           /\ panicked' = r.panicked
    /\ UNCHANGED <<inner, metadata_map, path_to_ids, specified_id_to_refs, hist,
                   sourcemap, call>>

\* The iterator goes out of scope.
DescendantsDrop ==
    /\ ~panicked
    /\ iter.active
    /\ iter' = NoIter
    /\ UNCHANGED <<inner, metadata_map, path_to_ids, specified_id_to_refs, panicked,
                   hist, sourcemap, call>>

\* Snapshots that vary in shape, with or without a relevant path per node.
TraversalHeads ==
    {InstanceSnapshot("Instance", "Folder", EmptyProperties,
                      InstanceMetadata(ps, None), <<>>) : ps \in {{}, {p1}}}

TraversalSnapshots == SnapshotsUpTo(TraversalHeads, MaxTraversalNodes)

InitDescendants == InitWith(TraversalSnapshots)

NextDescendants == Descendants \/ DescendantsNext \/ DescendantsDrop

SpecDescendants == InitDescendants /\ [][NextDescendants]_vars

\* The number of nodes of the snapshot the tree was built from.
BuiltFrom == SnapshotSize(Unwrap(hist.arg))

\* C6 as stated: for a tree built by new from a snapshot of N nodes,
\* descendants(root) yields N-1 items, every node except the root.
C6_Original ==
    (hist.op = "new" /\ iter.done /\ iter.id = inner.root_ref) =>
        /\ Len(iter.yielded) = BuiltFrom - 1
        /\ Range(iter.yielded) = Live \ {inner.root_ref}

\* C6 amended: for a tree built by new from a snapshot of N nodes,
\* descendants(root) yields N items: the root first, then every other node,
\* each node exactly once.
C6_TraversalCompleteness ==
    (hist.op = "new" /\ iter.done /\ iter.id = inner.root_ref) =>
        /\ Len(iter.yielded) = BuiltFrom
        /\ Cardinality(Live) = BuiltFrom
        /\ Range(iter.yielded) = Live
        /\ Cardinality(Range(iter.yielded)) = Len(iter.yielded)
        /\ iter.yielded[1] = inner.root_ref

\* C6 witness: the traversal of a tree of four nodes from its root has ended
\* after four items.
C6_Witness ==
    /\ hist.op = "new"
    /\ iter.done
    /\ iter.id = inner.root_ref
    /\ BuiltFrom = 4
    /\ Len(iter.yielded) = 4
    /\ Len(inner.instances[inner.root_ref].children) = 2

-----------------------------------------------------------------------------
(* sourcemap.rs: recurse_create_node *)

\* Path::is_file, against the regular files now on disk.
is_file(path, files) == path \in files

\* Path::strip_prefix: the rest of the path after base, or None.
strip_prefix(path, base) ==
    IF Len(base) <= Len(path) /\ SubSeq(path, 1, Len(base)) = base
    THEN Some(SubSeq(path, Len(base) + 1, Len(path)))
    ELSE None

\* The file_paths of a SourcemapNode.
file_paths(metadata, project_dir, files) ==
    {Unwrap(strip_prefix(path, project_dir)) :
        path \in {q \in metadata.relevant_paths :
                     is_file(q, files) /\ IsSome(strip_prefix(q, project_dir))}}

SourcemapNode(name, class_name, paths, children) ==
    [name |-> name, class_name |-> class_name, file_paths |-> paths,
     children |-> children]

\* The values of the results that are Some, in order (filter_map).
Present(results) ==
    LET kept == SelectSeq(results, LAMBDA r : IsSome(r.value))
    IN  [i \in DOMAIN kept |-> Unwrap(kept[i].value)]

RECURSIVE recurse_create_node_WithFilter(_, _, _, _)
\* recurse_create_node keeping a node without children when it has file_paths.
recurse_create_node_WithFilter(t, referent, project_dir, files) ==
    LET got == get_instance(t, referent)
    IN  IF got.panicked \/ got.value = None
        THEN [panicked |-> TRUE, value |-> None]
        ELSE LET instance == Unwrap(got.value)
                 kids == instance.instance.children
                 results == [i \in DOMAIN kids |->
                               recurse_create_node_WithFilter(t, kids[i], project_dir,
                                                              files)]
                 children == Present(results)
                 paths == file_paths(instance.metadata, project_dir, files)
             IN  IF \E i \in DOMAIN results : results[i].panicked
                 THEN [panicked |-> TRUE, value |-> None]
                 ELSE IF children = <<>> /\ paths = {}
                      THEN [panicked |-> FALSE, value |-> None]
                      ELSE [panicked |-> FALSE,
                            value |-> Some(SourcemapNode(instance.instance.name,
                                                         instance.instance.class,
                                                         paths, children))]

RECURSIVE recurse_create_node(_, _, _, _)
\* recurse_create_node: the node returned, or panicked where the expect on
\* get_instance fails (here or in a child).
recurse_create_node(t, referent, project_dir, files) ==
    LET got == get_instance(t, referent)
    IN  IF got.panicked \/ got.value = None
        THEN [panicked |-> TRUE, value |-> None]
        ELSE LET instance == Unwrap(got.value)
                 kids == instance.instance.children
                 results == [i \in DOMAIN kids |->
                               recurse_create_node(t, kids[i], project_dir, files)]
                 children == Present(results)
             IN  IF \E i \in DOMAIN results : results[i].panicked
                 THEN [panicked |-> TRUE, value |-> None]
                 ELSE IF children = <<>>
                      THEN [panicked |-> FALSE, value |-> None]
                      ELSE [panicked |-> FALSE,
                            value |-> Some(SourcemapNode(
                                          instance.instance.name,
                                          instance.instance.class,
                                          file_paths(instance.metadata, project_dir,
                                                     files),
                                          children))]

\* The relevant paths of the projected trees: one inside the project
\* directory, one outside.
SourcemapPaths == {p1, p3}

RecurseCreateNode ==
    /\ ~panicked
    /\ \E referent \in Live, files \in SUBSET SourcemapPaths :
          LET r == recurse_create_node(Tree, referent, ProjectDir, files)
          IN  /\ sourcemap' = [called |-> TRUE, referent |-> referent,
                               files |-> files, result |-> r.value]
              /\ panicked' = r.panicked
    /\ UNCHANGED <<inner, metadata_map, path_to_ids, specified_id_to_refs, hist, iter,
                   call>>

SourcemapHeads ==
    {InstanceSnapshot("Instance", "Folder", EmptyProperties,
                      InstanceMetadata(ps, None), <<>>) : ps \in {{}, {p1}, {p3}}}

SourcemapSnapshots == SnapshotsUpTo(SourcemapHeads, MaxTraversalNodes)

InitSourcemap == InitWith(SourcemapSnapshots)

NextSourcemap == RecurseCreateNode

SpecSourcemap == InitSourcemap /\ [][NextSourcemap]_vars

\* A node is file-backed when one of its relevant paths is a regular file
\* inside the project directory, so that its file_paths are not empty.
FileBacked(h, files) == file_paths(metadata_map[h], ProjectDir, files) # {}

IsLeaf(h) == inner.instances[h].children = <<>>

RECURSIVE IsChain(_, _)
\* node is a chain of n SourcemapNodes: each but the last has one child.
IsChain(node, n) ==
    IF n <= 1
    THEN node.children = <<>>
    ELSE Len(node.children) = 1 /\ IsChain(node.children[1], n - 1)

\* C7 as stated: recurse_create_node on a subtree with exactly one
\* file-backed node, a leaf, returns Some chain of nodes from the root of the
\* subtree down to that leaf.
C7_Original ==
    sourcemap.called =>
        \A leaf \in SubtreeRefs(inner, sourcemap.referent) :
            (/\ IsLeaf(leaf)
             /\ {h \in SubtreeRefs(inner, sourcemap.referent) :
                    FileBacked(h, sourcemap.files)} = {leaf}) =>
                /\ IsSome(sourcemap.result)
                /\ IsChain(Unwrap(sourcemap.result),
                           1 + Cardinality(Ancestors(leaf) \ Ancestors(sourcemap.referent)))

-----------------------------------------------------------------------------
(* The NeedsPivotMigration hack of insert_instance *)

ShimClasses == ModelClasses \cup {"Part"}

ShimProperties ==
    {EmptyProperties, "NeedsPivotMigration" :> TRUE, "NeedsPivotMigration" :> FALSE,
     "Archivable" :> TRUE}

\* Snapshots that vary in class and properties.
ShimHeads ==
    {InstanceSnapshot("Instance", c, ps, EmptyMetadata, <<>>) :
        c \in ShimClasses, ps \in ShimProperties}

\* The root is built by new, which has no hack: a Model or a Part without
\* properties.
ShimRoots ==
    {InstanceSnapshot("Instance", c, EmptyProperties, EmptyMetadata, <<>>) :
        c \in {"Model", "Part"}}

InitShim == InitWith(ShimRoots)

InsertInstanceShim == InsertInstanceFrom(ShimHeads)

NextShim == InsertInstanceShim \/ Remove

SpecShim == InitShim /\ [][NextShim]_vars

RECURSIVE CreatedAs(_, _)
\* The instance at ref and its descendants are what insert_instance is to
\* make of the snapshot: for a class of the list, NeedsPivotMigration is the
\* snapshot's value, or false where the snapshot has none, and the other
\* properties are the snapshot's; for any other class the properties are the
\* snapshot's.
CreatedAs(snapshot, ref) ==
    LET instance == inner.instances[ref]
        given == snapshot.properties
    IN  /\ instance.class = snapshot.class_name
        /\ IF snapshot.class_name \in {"Model", "Actor", "Tool", "HopperBin", "Flag",
                                       "WorldModel", "Workspace", "Status"}
           THEN /\ DOMAIN instance.properties = DOMAIN given \cup {"NeedsPivotMigration"}
                /\ instance.properties["NeedsPivotMigration"] =
                       IF "NeedsPivotMigration" \in DOMAIN given
                       THEN given["NeedsPivotMigration"]
                       ELSE FALSE
                /\ \A k \in DOMAIN given : instance.properties[k] = given[k]
           ELSE instance.properties = given
        /\ Len(instance.children) = Len(snapshot.children)
        /\ \A i \in DOMAIN snapshot.children :
              CreatedAs(snapshot.children[i], instance.children[i])

\* C9: every node insert_instance creates has, for a class of the list,
\* NeedsPivotMigration false where the snapshot did not give the property and
\* the snapshot's value where it did; a node of another class has the
\* snapshot's properties.
C9_PivotShim == hist.op = "insert" => CreatedAs(Unwrap(hist.arg), hist.ret)

\* C9 witness: a Workspace given NeedsPivotMigration = true kept it, and its
\* child, a Status given Archivable alone, got NeedsPivotMigration = false.
C9_Witness ==
    /\ hist.op = "insert"
    /\ Unwrap(hist.arg).class_name = "Workspace"
    /\ Unwrap(hist.arg).properties = "NeedsPivotMigration" :> TRUE
    /\ inner.instances[hist.ret].properties = "NeedsPivotMigration" :> TRUE
    /\ Len(inner.instances[hist.ret].children) = 1
    /\ LET child == inner.instances[hist.ret].children[1]
       IN  /\ inner.instances[child].class = "Status"
           /\ Unwrap(hist.arg).children[1].properties = "Archivable" :> TRUE
           /\ inner.instances[child].properties =
                  ("Archivable" :> TRUE) @@ ("NeedsPivotMigration" :> FALSE)

-----------------------------------------------------------------------------
(* The specified ids, with hist keeping what a call was given and replaced *)

\* Metadata without relevant paths, with or without a specified id.
IdMetadatas == {InstanceMetadata({}, id) : id \in Options(RojoRefs)}

IdHeads ==
    {InstanceSnapshot("Instance", "Folder", EmptyProperties, m, <<>>) :
        m \in IdMetadatas}

IdSnapshots == SnapshotsUpTo(IdHeads, MaxSnapshotNodes)

InitIds == InitWith(IdSnapshots)

InsertInstanceIds == InsertInstanceFrom(IdHeads)

UpdateMetadataIds == UpdateMetadataFrom(IdMetadatas, TRUE)

SetSpecifiedIdKeepOld == SetSpecifiedIdFrom(TRUE)

NextIds == InsertInstanceIds \/ Remove \/ UpdateMetadataIds \/ SetSpecifiedIdKeepOld

SpecIds == InitIds /\ [][NextIds]_vars

\* The handles under a specified id in the index t_ids.
Claimants(t_ids, specified) == Range(MultiMapGet(t_ids, specified))

\* C11 as stated: every insert_instance, update_metadata and
\* set_specified_id that adds a handle h under a specified id that another
\* live handle o is already under completes without a panic, leaves h and o
\* both in the entry of that id, and writes a log::error! record.
C11_Original ==
    [][\A specified \in RojoRefs : \A h, o \in 1..MaxRefs :
          (/\ hist'.op \in {"insert", "update", "set_id"}
           /\ h # o
           /\ o \in Live
           /\ o \in Claimants(specified_id_to_refs, specified)
           /\ h \notin Claimants(specified_id_to_refs, specified)
           /\ h \in Claimants(specified_id_to_refs', specified)) =>
              /\ ~panicked'
              /\ {h, o} \subseteq Claimants(specified_id_to_refs', specified)
              /\ hist'.logged >= 1]_vars

\* C11 restricted to insert_instance and update_metadata, the two methods
\* that test the entry before they add to it.
C11_InsertAndUpdateLog ==
    [][\A specified \in RojoRefs : \A h, o \in 1..MaxRefs :
          (/\ hist'.op \in {"insert", "update"}
           /\ h # o
           /\ o \in Live
           /\ o \in Claimants(specified_id_to_refs, specified)
           /\ h \notin Claimants(specified_id_to_refs, specified)
           /\ h \in Claimants(specified_id_to_refs', specified)) =>
              /\ ~panicked'
              /\ {h, o} \subseteq Claimants(specified_id_to_refs', specified)
              /\ hist'.logged >= 1]_vars

\* C12: set_specified_id(h, id) on a live handle h leaves h's metadata with
\* specified_id = Some(id), h in the entry of id and in no entry of another
\* id, every other handle in the entries it was in, and the rest of the tree
\* as it was.
C12_SetSpecifiedId ==
    [][hist'.op = "set_id" =>
          LET h == hist'.id
              specified == Unwrap(hist'.arg)
          IN  /\ ~panicked'
              /\ h \in Live
              /\ metadata_map' =
                     [metadata_map EXCEPT ![h].specified_id = Some(specified)]
              /\ h \in Claimants(specified_id_to_refs', specified)
              /\ \A other \in RojoRefs \ {specified} :
                    h \notin Claimants(specified_id_to_refs', other)
              /\ \A any \in RojoRefs :
                    Claimants(specified_id_to_refs', any) \ {h} =
                        Claimants(specified_id_to_refs, any) \ {h}
              /\ DOMAIN specified_id_to_refs' \subseteq RojoRefs
              /\ inner' = inner
              /\ path_to_ids' = path_to_ids]_vars

\* C12 witness: handle 2 declared X, as the root does, and was given Y, which
\* handle 3 declares; X is left with the root and Y has 3 and 2.
C12_Witness ==
    /\ hist.op = "set_id"
    /\ hist.id = 2
    /\ hist.arg = Some("Y")
    /\ hist.old = Some(InstanceMetadata({}, Some("X")))
    /\ metadata_map[2].specified_id = Some("Y")
    /\ MultiMapGet(specified_id_to_refs, "X") = <<inner.root_ref>>
    /\ MultiMapGet(specified_id_to_refs, "Y") = <<3, 2>>

\* C18 as stated: every live instance of a class of the list, the root built
\* by new included, has the NeedsPivotMigration property.
C18_Original ==
    \A h \in Live :
        inner.instances[h].class \in ModelClasses =>
            "NeedsPivotMigration" \in DOMAIN inner.instances[h].properties

-----------------------------------------------------------------------------
(* RojoDescendants consumed to its end *)

\* The iterator goes out of scope after next has returned None.
DescendantsDropDone ==
    /\ iter.done
    /\ DescendantsDrop

NextConsumed == Descendants \/ DescendantsNext \/ DescendantsDropDone

\* The consumer keeps calling next.
SpecConsumed ==
    InitDescendants /\ [][NextConsumed]_vars /\ WF_vars(DescendantsNext)

\* The number of ancestors of a live handle.
Depth(h) == Cardinality(Ancestors(h))

\* The handles yielded so far are in breadth-first order, without a repeat.
BreadthFirst(yielded) ==
    /\ Cardinality(Range(yielded)) = Len(yielded)
    /\ Range(yielded) \subseteq SubtreeRefs(inner, iter.id)
    /\ \A i, j \in DOMAIN yielded :
          /\ i < j => Depth(yielded[i]) <= Depth(yielded[j])
          /\ yielded[i] = inner.instances[yielded[j]].parent => i < j
    /\ \A j \in DOMAIN yielded :
          yielded[j] # iter.id => inner.instances[yielded[j]].parent \in Range(yielded)

\* C17: descendants(h) of a live handle h, with no mutation while it is
\* consumed: neither expect of next fails; the handles yielded are in
\* breadth-first order (a node before its children, depth d before depth
\* d+1) without a repeat; the queue holds the children, not yet yielded, of
\* the nodes yielded; every traversal started ends, having yielded the whole
\* subtree of h; and once next has returned None it returns None again and
\* changes nothing.
C17_BreadthFirstTermination ==
    /\ [](iter.active =>
             /\ ~panicked
             /\ BreadthFirst(iter.yielded)
             /\ \A c \in Range(iter.queue) :
                   /\ c \notin Range(iter.yielded)
                   /\ c = iter.id \/ inner.instances[c].parent \in Range(iter.yielded)
             /\ iter.done =>
                   /\ Range(iter.yielded) = SubtreeRefs(inner, iter.id)
                   /\ RojoDescendants_next(Tree, iter) =
                          [iter |-> iter, item |-> None, panicked |-> FALSE])
    /\ \A id \in 1..MaxTraversalNodes :
          (iter.active /\ iter.id = id) ~> (iter.active /\ iter.id = id /\ iter.done)

\* C17 witness: the traversal from the root of a tree whose first child has a
\* child of its own has ended; the second child of the root was yielded
\* before the grandchild.
C17_Witness ==
    /\ iter.done
    /\ iter.id = inner.root_ref
    /\ inner.instances[1].children = <<2, 4>>
    /\ inner.instances[2].children = <<3>>
    /\ iter.yielded = <<1, 2, 4, 3>>

-----------------------------------------------------------------------------
(* Calls on handles that are not live *)

MisuseMetadatas ==
    {InstanceMetadata(ps, id) : ps \in {{}, {p1}}, id \in Options({"X"})}

MisuseHeads ==
    {InstanceSnapshot("Instance", "Folder", EmptyProperties, m, <<>>) :
        m \in MisuseMetadatas}

MisuseSnapshots == SnapshotsUpTo(MisuseHeads, MaxSnapshotNodes)

InitMisuse == InitWith(MisuseSnapshots)

InsertInstanceMisuse == InsertInstanceFrom(MisuseHeads)

\* The handles a caller can hold that have no node: Ref::none() and the
\* handles of removed instances.
NotLive == ({NoneRef} \cup 1..inner.allocated) \ Live

\* remove on a handle that is not live.
RemoveNotLive ==
    /\ CanMutate
    /\ \E id \in NotLive :
          LET t == remove(Tree, id)
          IN  /\ Store(t)
              /\ hist' = Hist("remove_not_live", id, None, NoneRef,
                              get_metadata(Tree, id), None, FALSE, t.logged)
    /\ UNCHANGED <<iter, sourcemap, call>>

\* update_metadata on a handle that is not live and has no metadata.
UpdateMetadataFirstTime ==
    /\ CanMutate
    /\ \E id \in NotLive \ DOMAIN metadata_map, metadata \in MisuseMetadatas :
          LET t == update_metadata(Tree, id, metadata)
          IN  /\ Store(t)
              /\ hist' = Hist("update_first", id, Some(metadata), NoneRef,
                              get_metadata(Tree, id), None, FALSE, t.logged)
    /\ UNCHANGED <<iter, sourcemap, call>>

NextMisuse ==
    InsertInstanceMisuse \/ Remove \/ RemoveNotLive \/ UpdateMetadataFirstTime

SpecMisuse == InitMisuse /\ [][NextMisuse]_vars

\* C16: update_metadata(h, m) for a handle h without an entry in
\* metadata_map stores m as h's metadata and changes nothing else:
\* path_to_ids, specified_id_to_refs, the other metadata and the WeakDom
\* are as they were, whatever relevant_paths and specified_id m has.
C16_FirstTimeUpdate ==
    [][(hist'.op = "update_first" /\ hist'.id \notin DOMAIN metadata_map) =>
          /\ ~panicked'
          /\ DOMAIN metadata_map' = DOMAIN metadata_map \cup {hist'.id}
          /\ metadata_map'[hist'.id] = Unwrap(hist'.arg)
          /\ \A r \in DOMAIN metadata_map : metadata_map'[r] = metadata_map[r]
          /\ path_to_ids' = path_to_ids
          /\ specified_id_to_refs' = specified_id_to_refs
          /\ inner' = inner
          /\ hist'.logged = 0]_vars

\* C16 witness: handle 2 was removed and then given metadata with the path p1
\* and the id X, which the root declares too; the two entries hold the root
\* alone.
C16_Witness ==
    /\ hist.op = "update_first"
    /\ hist.id = 2
    /\ hist.old = None
    /\ 2 \notin Live
    /\ metadata_map[2] = InstanceMetadata({p1}, Some("X"))
    /\ metadata_map[inner.root_ref] = InstanceMetadata({p1}, Some("X"))
    /\ get_ids_at_path(Tree, p1) = <<inner.root_ref>>
    /\ MultiMapGet(specified_id_to_refs, "X") = <<inner.root_ref>>

\* C20: remove(h) for a handle h with no node and no metadata panics, and
\* where it panics metadata_map, path_to_ids, specified_id_to_refs and the
\* WeakDom are as they were before the call.
C20_RemoveNotLivePanics ==
    [][(/\ hist'.op = "remove_not_live"
        /\ hist'.id \notin Live
        /\ hist'.id \notin DOMAIN metadata_map) =>
          /\ panicked'
          /\ metadata_map' = metadata_map
          /\ path_to_ids' = path_to_ids
          /\ specified_id_to_refs' = specified_id_to_refs
          /\ inner' = inner]_vars

\* C20 witness: a subtree of two instances was removed and remove was called
\* again on its root; the call panicked, and the tree still has the root with
\* its entries in both indices.
C20_Witness ==
    /\ hist.op = "remove_not_live"
    /\ hist.id = 2
    /\ hist.old = None
    /\ inner.allocated = 3
    /\ panicked
    /\ Live = {inner.root_ref}
    /\ DOMAIN metadata_map = {inner.root_ref}
    /\ get_ids_at_path(Tree, p1) = <<inner.root_ref>>
    /\ MultiMapGet(specified_id_to_refs, "X") = <<inner.root_ref>>

-----------------------------------------------------------------------------
(* remove and update_metadata, statement by statement *)

\* Metadata without a specified id, with one, and with another one and a
\* relevant path.
StepMetadatas ==
    {EmptyMetadata, InstanceMetadata({}, Some("X")), InstanceMetadata({p1}, Some("Y"))}

StepHeads ==
    {InstanceSnapshot("Instance", "Folder", EmptyProperties, m, <<>>) :
        m \in StepMetadatas}

StepSnapshots == SnapshotsUpTo(StepHeads, MaxSnapshotNodes)

\* RojoTree::new, with hist keeping the root handle alone.
InitSteps ==
    \E snapshot \in StepSnapshots :
        LET t == new(snapshot)
        IN  /\ inner = t.inner
            /\ metadata_map = t.metadata_map
            /\ path_to_ids = t.path_to_ids
            /\ specified_id_to_refs = t.specified_id_to_refs
            /\ panicked = t.panicked
            /\ hist = Hist("new", NoneRef, None, t.inner.root_ref, None, None, FALSE,
                           t.logged)
            /\ iter = NoIter
            /\ sourcemap = NoSourcemap
            /\ call = NoCall

\* insert_instance, with hist keeping the handles alone.
InsertInstanceSteps ==
    /\ CanMutate
    /\ \E n \in 1..MaxSnapshotNodes :
          /\ inner.allocated + n <= MaxRefs
          /\ \E parent_ref \in Live, snapshot \in SnapshotsOfSize(StepHeads, n) :
                LET r == insert_instance(Tree, parent_ref, snapshot)
                IN  /\ Store(r.tree)
                    /\ hist' = Hist("insert", parent_ref, None, r.referent, None, None,
                                    FALSE, r.tree.logged)
    /\ UNCHANGED <<iter, sourcemap, call>>

\* A method entered with the handle id: nothing of its body has run.
Entered(op, id, metadata, to_move, pc) ==
    [active |-> TRUE, op |-> op, id |-> id, metadata |-> metadata,
     to_move |-> to_move, pc |-> pc, before |-> Some(Tree), logged |-> 0]

\* remove(id) is called: to_move holds id.
RemoveCall ==
    /\ CanMutate
    /\ \E id \in Live \ {inner.root_ref} :
          call' = Entered("remove", id, None, <<id>>, "loop")
    /\ UNCHANGED <<inner, metadata_map, path_to_ids, specified_id_to_refs, panicked,
                   hist, iter, sourcemap>>

\* One pass of the loop of remove.
RemoveVisit ==
    /\ ~panicked
    /\ call.active
    /\ call.op = "remove"
    /\ call.to_move # <<>>
    /\ LET r == remove_visit(Tree, call.to_move)
       IN  /\ Store(r.tree)
           /\ call' = [call EXCEPT !.to_move = r.to_move]
    /\ UNCHANGED <<hist, iter, sourcemap>>

\* The queue is empty: remove destroys the subtree and returns.
RemoveDestroy ==
    /\ ~panicked
    /\ call.active
    /\ call.op = "remove"
    /\ call.to_move = <<>>
    /\ Store(destroy(Tree, call.id))
    /\ call' = NoCall
    /\ hist' = Hist("remove", call.id, None, NoneRef,
                    get_metadata(Unwrap(call.before), call.id), None, FALSE,
                    call.logged)
    /\ UNCHANGED <<iter, sourcemap>>

\* update_metadata(id, metadata) is called on a handle that has metadata.
UpdateMetadataCall ==
    /\ CanMutate
    /\ \E id \in Live, metadata \in StepMetadatas :
          call' = Entered("update", id, Some(metadata), <<>>, "paths")
    /\ UNCHANGED <<inner, metadata_map, path_to_ids, specified_id_to_refs, panicked,
                   hist, iter, sourcemap>>

\* A statement of update_metadata: it runs at pc and leaves the call at next.
UpdateMetadataStatement(pc, next, t) ==
    /\ ~panicked
    /\ call.active
    /\ call.op = "update"
    /\ call.pc = pc
    /\ Store(t)
    /\ call' = [call EXCEPT !.pc = next, !.logged = @ + t.logged]
    /\ UNCHANGED <<hist, iter, sourcemap>>

UpdateMetadataPaths ==
    /\ call.active
    /\ UpdateMetadataStatement(
           "paths", "add", update_metadata_paths(Tree, call.id, Unwrap(call.metadata)))

UpdateMetadataAdd ==
    /\ call.active
    /\ UpdateMetadataStatement(
           "add", "remove", update_metadata_add_id(Tree, call.id, Unwrap(call.metadata)))

UpdateMetadataRemove ==
    /\ call.active
    /\ UpdateMetadataStatement(
           "remove", "store",
           update_metadata_remove_id(Tree, call.id, Unwrap(call.metadata)))

\* entry.insert(metadata), and update_metadata returns.
UpdateMetadataStore ==
    /\ ~panicked
    /\ call.active
    /\ call.op = "update"
    /\ call.pc = "store"
    /\ Store(update_metadata_store(Tree, call.id, Unwrap(call.metadata)))
    /\ call' = NoCall
    /\ hist' = Hist("update", call.id, None, NoneRef,
                    get_metadata(Unwrap(call.before), call.id), None, FALSE,
                    call.logged)
    /\ UNCHANGED <<iter, sourcemap>>

NextSteps ==
    \/ InsertInstanceSteps
    \/ RemoveCall
    \/ RemoveVisit
    \/ RemoveDestroy
    \/ UpdateMetadataCall
    \/ UpdateMetadataPaths
    \/ UpdateMetadataAdd
    \/ UpdateMetadataRemove
    \/ UpdateMetadataStore

SpecSteps == InitSteps /\ [][NextSteps]_vars

\* The four fields of a tree value.
Fields(t) == <<t.inner, t.metadata_map, t.path_to_ids, t.specified_id_to_refs>>

\* The statements of a call, run one by one, end in the tree that the method
\* as a whole gives.
StepsAgree ==
    [][(call.active /\ ~call'.active) =>
          Fields([inner |-> inner', metadata_map |-> metadata_map',
                  path_to_ids |-> path_to_ids',
                  specified_id_to_refs |-> specified_id_to_refs']) =
              Fields(IF call.op = "remove"
                     THEN remove(Unwrap(call.before), call.id)
                     ELSE update_metadata(Unwrap(call.before), call.id,
                                          Unwrap(call.metadata)))]_vars

\* The tree as it was when the running method was called.
Before == Unwrap(call.before)

\* The handles of the subtree that the running remove was called on.
Gone == SubtreeRefs(Before.inner, call.id)

\* C14: remove(h) on a live handle h other than the root: no pass of its loop
\* changes the WeakDom; when the one call of destroy runs, the queue is
\* empty, h and every descendant of h have lost their metadata and still have
\* their nodes; after it no handle of the subtree has a node, metadata or a
\* place in path_to_ids or specified_id_to_refs, and every other handle has
\* its node, its metadata and its places in both indices as before the call.
C14_RemoveOrder ==
    [][/\ ~panicked'
       /\ (call.op = "remove" /\ call'.op = "remove") =>
             /\ inner' = inner
             /\ Head(call.to_move) \in Gone
             /\ DOMAIN metadata_map' = DOMAIN metadata_map \ {Head(call.to_move)}
       /\ (call.op = "remove" /\ ~call'.active) =>
             /\ call.to_move = <<>>
             /\ inner = Before.inner
             /\ Gone \cap DOMAIN metadata_map = {}
             /\ DOMAIN inner'.instances = DOMAIN Before.inner.instances \ Gone
             /\ DOMAIN metadata_map' = DOMAIN inner'.instances
             /\ \A h \in DOMAIN inner'.instances :
                   /\ metadata_map'[h] = Before.metadata_map[h]
                   /\ inner'.instances[h] =
                          [Before.inner.instances[h] EXCEPT
                              !.children = SelectSeq(@, LAMBDA c : c # call.id)]
             /\ \A path \in DOMAIN Before.path_to_ids \cup DOMAIN path_to_ids' :
                   Claimants(path_to_ids', path) =
                       Claimants(Before.path_to_ids, path) \ Gone
             /\ \A specified \in
                      DOMAIN Before.specified_id_to_refs \cup DOMAIN specified_id_to_refs' :
                   Claimants(specified_id_to_refs', specified) =
                       Claimants(Before.specified_id_to_refs, specified) \ Gone]_vars

\* C14 witness: remove of handle 2, which has the child 3, has run its loop
\* twice and is about to destroy: neither handle has metadata, both have
\* their nodes, and the entries of p1 and Y, which handle 2 and the root
\* declared, hold the root alone.
C14_Witness ==
    /\ call.active
    /\ call.op = "remove"
    /\ call.id = 2
    /\ call.to_move = <<>>
    /\ Gone = {2, 3}
    /\ Before.metadata_map[2] = InstanceMetadata({p1}, Some("Y"))
    /\ Before.path_to_ids[p1] = <<1, 2>>
    /\ {2, 3} \subseteq DOMAIN inner.instances
    /\ DOMAIN metadata_map = {1}
    /\ get_ids_at_path(Tree, p1) = <<1>>
    /\ MultiMapGet(specified_id_to_refs, "Y") = <<1>>

\* The specified id of the handle when update_metadata was called, and the
\* one of the metadata given.
OldId == Before.metadata_map[call.id].specified_id

NewId == Unwrap(call.metadata).specified_id

\* update_metadata adds before it removes: between the two statements the
\* handle is under the new specified id and still under the old one.
AddBeforeRemove ==
    (call.op = "update" /\ call.pc = "remove" /\ OldId # NewId) =>
        /\ IsSome(NewId) => call.id \in Claimants(specified_id_to_refs, Unwrap(NewId))
        /\ IsSome(OldId) => call.id \in Claimants(specified_id_to_refs, Unwrap(OldId))

\* The last call took the specified id from the live handle hist.id, and the
\* update_metadata that is running gives it to another live handle.
Reassigning(specified) ==
    /\ call.op = "update"
    /\ NewId = Some(specified)
    /\ OldId # Some(specified)
    /\ hist.op = "update"
    /\ hist.id # call.id
    /\ hist.id \in Live
    /\ Unwrap(hist.old).specified_id = Some(specified)
    /\ metadata_map[hist.id].specified_id # Some(specified)

\* C15 as stated: update_metadata adds before it removes, and while a
\* specified id is reassigned from one live handle to another its entry in
\* specified_id_to_refs is never empty.
C15_Original ==
    /\ AddBeforeRemove
    /\ \A specified \in RojoRefs :
          Reassigning(specified) =>
              MultiMapGet(specified_id_to_refs, specified) # <<>>

\* C15 amended: update_metadata adds before it removes, so between the two
\* statements the handle is under both ids; at every statement of the call
\* the other handles are under the ids they were under when it was called,
\* and an entry that had a claimant then has one until the removal has run.
\* (An id that a second live handle claims before the first gives it up has
\* a claimant throughout; nothing is said of an id given up first.)
C15_AddBeforeRemove ==
    /\ AddBeforeRemove
    /\ call.op = "update" =>
          \A specified \in RojoRefs :
              /\ Claimants(specified_id_to_refs, specified) \ {call.id} =
                     Claimants(Before.specified_id_to_refs, specified) \ {call.id}
              /\ (/\ call.pc \in {"paths", "add", "remove"}
                  /\ MultiMapGet(Before.specified_id_to_refs, specified) # <<>>) =>
                     MultiMapGet(specified_id_to_refs, specified) # <<>>

\* C15 witness: handle 2 declared X, as the root does, and is given Y, which
\* handle 3 declares; the add has run and logged the duplicate, the removal
\* has not: handle 2 is under X and under Y.
C15_Witness ==
    /\ call.op = "update"
    /\ call.pc = "remove"
    /\ call.id = 2
    /\ OldId = Some("X")
    /\ NewId = Some("Y")
    /\ call.logged = 1
    /\ MultiMapGet(specified_id_to_refs, "X") = <<1, 2>>
    /\ MultiMapGet(specified_id_to_refs, "Y") = <<3, 2>>

=============================================================================
